---- MODULE Spec2Model ----
(***************************************************************************)
(* Medguard backend: the streaming simulator (backend/simulator.py) and    *)
(* the websocket fan-out of the HTTP backend (backend/main.py).            *)
(*                                                                         *)
(* Spec     : Simulator.stream_tests / runner threads / stop_stream.       *)
(*            Threads interleave at every read or write of shared state    *)
(*            (the stop flag, running_streams, the callback).              *)
(* RunSpec  : one stream_tests call of any interval, max_tests and        *)
(*            selector, from its start to its end, with stop_stream calls  *)
(*            at any moment.                                               *)
(* MgrSpec  : ConnectionManager on the asyncio event loop; tasks           *)
(*            interleave only where the code awaits.                       *)
(* EvalSpec : the path of one event: it is made (stream task, /predict,    *)
(*            Simulator.simulate_hardware_test), scored, evaluated, and    *)
(*            its alert is stored, broadcast and read back.                *)
(***************************************************************************)
EXTENDS Integers, Sequences, FiniteSets, TLC

(* ------------------------------ bounds -------------------------------- *)
\* number of Simulator.stream_tests calls
MaxStreams == 2
\* cap on the events one worker publishes (an endless stream is cut here)
MaxTicks == 2
\* rows of the catalog (self.df); row indices are 0..CatalogSize-1
CatalogSize == 1
\* ticks after which the configured duration of a stream has elapsed
DurationTicks == 1

\* websocket connections
MaxSockets == 2
\* ticks a _stream_simulator_task makes before run_seconds is over
MgrTicks == 1
\* cap on the broadcast calls of one run of the model
MaxCalls == 2

Workers == 1..MaxStreams
NoWorker == 0
\* the two producers on the event loop; each becomes a
\* _stream_simulator_task or a /predict request
Tasks == {1, 2}
NoTask == 0
Sockets == 1..MaxSockets

\* ids a caller passes as run_id, and the ids uuid4 makes (one per call)
RunIds == {"r1"}
Uuid(w) == "u" \o ToString(w)
StreamIds == RunIds \cup {Uuid(w) : w \in Workers} \cup {"never"}

\* sample_selector: None (random, endless) or a list of row indices.
\* CatalogSize itself is the first index out of range (df.iloc raises).
RandomSel == [kind |-> "random", idx |-> <<>>]
ListSel(s) == [kind |-> "list", idx |-> s]

\* The start requests the model draws from: run_id (<<>> is None),
\* selector, interval in 0.1 s quanta, max_tests (<<>> is None).
Requests ==
    { [run_id |-> <<"r1">>, sel |-> RandomSel, interval |-> 1, max_tests |-> <<>>],
      [run_id |-> <<"r1">>, sel |-> ListSel(<<CatalogSize>>), interval |-> 0, max_tests |-> <<>>],
      [run_id |-> <<>>, sel |-> ListSel(<<0>>), interval |-> 0, max_tests |-> <<>>],
      [run_id |-> <<>>, sel |-> RandomSel, interval |-> 0, max_tests |-> <<1>>] }

NoRequest == [run_id |-> <<>>, sel |-> RandomSel, interval |-> 0, max_tests |-> <<>>]

VARIABLES
    running_streams,  \* Simulator.running_streams: stream id -> worker (0: no entry)
    pc,               \* where each runner thread is
    wid,              \* stream_id closed over by each runner
    req,              \* the arguments of the stream_tests call of each runner
    stop_flag,        \* stop_flag["stop"] of each runner
    count,            \* runner's local count
    gen,              \* what is left of a list selector
    slept,            \* runner's local slept, in quanta
    evlog,            \* seq values of the test events handed to callback, per runner
    ended,            \* stream_ended messages handed to callback, per runner
    stopRet,          \* what the last stop_stream call returned
    stopSaw           \* history: what that call found under the id: "absent" (no
                      \* entry), "fresh" (an entry, not yet asked to stop) or
                      \* "asked" (an entry whose stop flag was already set)

simVars == <<running_streams, pc, wid, req, stop_flag, count, gen, slept,
             evlog, ended, stopRet, stopSaw>>

VARIABLES
    active,      \* ConnectionManager.active, a list of websockets
    phase,       \* each websocket: "new", "open" or "closed" (a send on it raises)
    sendq,       \* per websocket, the tasks suspended in send_text, oldest first
    received,    \* per websocket, the call number of the last message it was sent (0: none)
    cur,         \* the task running on the event loop (0: the loop is free)
    tkind,       \* "none", "stream" (_stream_simulator_task) or "predict"
    tpc,         \* where each task is
    ticks,       \* sleeps of a stream task so far (its elapsed time)
    payload,     \* the event a task made: days to expiry (<<>>: none), fake_score, predicted_fake
    ev,          \* event of the broadcast a task is in: "test_result" or "alert"
    msg,         \* call number of that broadcast
    snap,        \* list(self.active) taken by that broadcast
    idx,         \* position of the for loop in it
    remove,      \* broadcast's local remove list
    lvl,         \* level of the alert evaluate_and_handle_alert made
    ncalls,      \* broadcast calls so far
    db,          \* alerts table: call numbers of the alerts stored
    atCall,      \* history: the websockets in active when the broadcast was called
    attempts,    \* history: the websockets send_text was called on, in order
    failedTo,    \* history: the websockets whose send_text raised
    delivered,   \* history: the websockets whose send_text completed
    owed,        \* history: per stream task, the websockets that were in active
                 \* when its tick began and have not been sent the test_result
                 \* of the tick ({} outside a tick)
    unsaved      \* history: per task, whether save_alert_to_db raised for the
                 \* alert the task is broadcasting

mgrVars == <<active, phase, sendq, received, cur, tkind, tpc, ticks, payload, ev,
             msg, snap, idx, remove, lvl, ncalls, db, atCall, attempts, failedTo,
             delivered, owed, unsaved>>

VARIABLES
    path,        \* the event being handled: stage (where its path is), src (who
                 \* made it: "stream", "predict", "sim" or "call"), result (the
                 \* dict handed to the evaluator), alert (the alert dict made,
                 \* <<>> for none), out (the alert message handed to the
                 \* subscribers, <<>> for none) and, as history, faults (the
                 \* side effects of this evaluation that raised)
    rows,        \* the alerts table of simulator_alerts.db
    loaded,      \* what the last load_alerts returned
    run          \* the producers: task (the stream task, "running" or "done"),
                 \* sent (the events of the stream it broadcast, in order),
                 \* elapsed (time since it started, in intervals), count (of
                 \* the runner whose ticks are followed), nevents (events made
                 \* so far), phone (what lookup_manufacturer_phone finds)

evalVars == <<path, rows, loaded, run>>

vars == <<simVars, mgrVars, evalVars>>

\* the other component is not running: its variables stay as they are
MgrIdle ==
    /\ active = 0 /\ phase = 0 /\ sendq = 0 /\ received = 0 /\ cur = 0
    /\ tkind = 0 /\ tpc = 0 /\ ticks = 0 /\ payload = 0 /\ ev = 0 /\ msg = 0
    /\ snap = 0 /\ idx = 0 /\ remove = 0 /\ lvl = 0 /\ ncalls = 0 /\ db = 0
    /\ atCall = 0 /\ attempts = 0 /\ failedTo = 0 /\ delivered = 0 /\ owed = 0
    /\ unsaved = 0
SimIdle ==
    /\ running_streams = 0 /\ pc = 0 /\ wid = 0 /\ req = 0 /\ stop_flag = 0
    /\ count = 0 /\ gen = 0 /\ slept = 0 /\ evlog = 0 /\ ended = 0
    /\ stopRet = 0 /\ stopSaw = 0
\* the event path is not running
EvalIdle == path = 0 /\ rows = 0 /\ loaded = 0 /\ run = 0

(* ------------------------- Simulator: helpers -------------------------- *)
Live(w) == pc[w] \in {"loop", "test", "sleep", "end", "cleanup"}
Registered(i) == running_streams[i] # NoWorker
\* the worker whose entry running_streams holds under id i
Entry(i) == running_streams[i]

\* line 198: stream_id = run_id or str(uuid.uuid4())
StreamIdFor(r, w) == IF r.run_id # <<>> THEN r.run_id[1] ELSE Uuid(w)

\* next(gen) at the top of "for sample in gen" (lines 203-213):
\* "stop" (StopIteration), "raise" (IndexError of df.iloc[i]) or "ok"
Draw(w) ==
    IF req[w].sel.kind = "random" THEN "ok"
    ELSE IF gen[w] = <<>> THEN "stop"
    ELSE IF Head(gen[w]) >= CatalogSize THEN "raise"
    ELSE "ok"

\* a counter that advances only for a tick whose status is OK
NextCountOkOnly(c, status, raised) == IF status = "OK" THEN c + 1 ELSE c

\* lines 217-223: the runner does not look at res["status"], and count += 1
\* runs whether or not the callback raised
NextCount(c, status, raised) == c + 1

\* line 224: max_tests is not None and count >= int(max_tests)
MaxReached(r, c) == r.max_tests # <<>> /\ c >= r.max_tests[1]

\* a stop_stream that answers True only the first time a stream is asked
StopResultFirstOnly(i) == Registered(i) /\ ~stop_flag[running_streams[i]]

\* lines 251-255: the result of stop_stream
StopResult(i) == Registered(i)

(* ------------------------- Simulator: actions -------------------------- *)
SimInit ==
    /\ running_streams = [i \in StreamIds |-> NoWorker]
    /\ pc = [w \in Workers |-> "idle"]
    /\ wid = [w \in Workers |-> "never"]
    /\ req = [w \in Workers |-> NoRequest]
    /\ stop_flag = [w \in Workers |-> FALSE]
    /\ count = [w \in Workers |-> 0]
    /\ gen = [w \in Workers |-> <<>>]
    /\ slept = [w \in Workers |-> 0]
    /\ evlog = [w \in Workers |-> <<>>]
    /\ ended = [w \in Workers |-> 0]
    /\ stopRet = "none"
    /\ stopSaw = "none"
    /\ MgrIdle
    /\ EvalIdle

\* stream_tests (lines 190-247): the id is taken, the entry written under the
\* lock (whatever was there), the thread started.
StreamTests(r) ==
    \E w \in Workers :
        /\ pc[w] = "idle"
        /\ \A v \in Workers : v < w => pc[v] # "idle"
        /\ LET id == StreamIdFor(r, w) IN
            /\ running_streams' = [running_streams EXCEPT ![id] = w]
            /\ wid' = [wid EXCEPT ![w] = id]
        /\ req' = [req EXCEPT ![w] = r]
        /\ gen' = [gen EXCEPT ![w] = r.sel.idx]
        /\ pc' = [pc EXCEPT ![w] = "loop"]
        /\ UNCHANGED <<stop_flag, count, slept, evlog, ended, stopRet, stopSaw>>
    /\ UNCHANGED <<mgrVars, evalVars>>

\* a loop top that draws the next sample without reading the stop flag
LoopTopNoFlag(w) ==
    /\ pc[w] = "loop"
    /\ LET d == Draw(w) IN
        /\ pc' = [pc EXCEPT ![w] =
                    IF d = "raise" THEN "dead"
                    ELSE IF d = "stop" THEN "end"
                    ELSE "test"]
        /\ gen' = [gen EXCEPT ![w] =
                    IF d = "ok" /\ req[w].sel.kind = "list" THEN Tail(gen[w]) ELSE gen[w]]
    /\ UNCHANGED <<running_streams, wid, req, stop_flag, count, slept, evlog, ended, stopRet, stopSaw>>
    /\ UNCHANGED <<mgrVars, evalVars>>

\* lines 213-215: draw the next sample, then read the stop flag
LoopTop(w) ==
    /\ pc[w] = "loop"
    /\ LET d == Draw(w) IN
        /\ pc' = [pc EXCEPT ![w] =
                    IF d = "raise" THEN "dead"
                    ELSE IF d = "stop" THEN "end"
                    ELSE IF stop_flag[w] THEN "end"
                    ELSE "test"]
        /\ gen' = [gen EXCEPT ![w] =
                    IF d = "ok" /\ req[w].sel.kind = "list" THEN Tail(gen[w]) ELSE gen[w]]
    /\ UNCHANGED <<running_streams, wid, req, stop_flag, count, slept, evlog, ended, stopRet, stopSaw>>
    /\ UNCHANGED <<mgrVars, evalVars>>

\* lines 216-225: simulate_hardware_test returns (status OK or ERROR), the
\* event is handed to callback with seq = count, count is incremented, and
\* max_tests is compared.
Tick(w, status, raised) ==
    /\ pc[w] = "test"
    /\ count[w] < MaxTicks
    /\ evlog' = [evlog EXCEPT ![w] = Append(evlog[w], count[w])]
    /\ count' = [count EXCEPT ![w] = NextCount(count[w], status, raised)]
    /\ slept' = [slept EXCEPT ![w] = 0]
    /\ pc' = [pc EXCEPT ![w] = IF MaxReached(req[w], count'[w]) THEN "end" ELSE "sleep"]
    /\ UNCHANGED <<running_streams, wid, req, stop_flag, gen, ended, stopRet, stopSaw>>
    /\ UNCHANGED <<mgrVars, evalVars>>

\* where the runner goes when it finds the flag set (line 228 break, then
\* line 232 finds it still set; or line 232 alone once the sleep is over)
OnStopSeen(w) == "end"

\* lines 226-233: one pass of "while slept < interval"; when the sleep is
\* over (a local test) line 232 reads the flag
SleepStep(w) ==
    /\ pc[w] = "sleep"
    /\ IF slept[w] >= req[w].interval
         THEN /\ pc' = [pc EXCEPT ![w] = IF stop_flag[w] THEN OnStopSeen(w) ELSE "loop"]
              /\ slept' = slept
         ELSE IF stop_flag[w]
           THEN pc' = [pc EXCEPT ![w] = OnStopSeen(w)] /\ slept' = slept
           ELSE pc' = pc /\ slept' = [slept EXCEPT ![w] = slept[w] + 1]
    /\ UNCHANGED <<running_streams, wid, req, stop_flag, count, gen, evlog, ended, stopRet, stopSaw>>
    /\ UNCHANGED <<mgrVars, evalVars>>

\* lines 235-238: callback({"stream_id": ..., "event": "stream_ended"})
PublishEnded(w) ==
    /\ pc[w] = "end"
    /\ ended' = [ended EXCEPT ![w] = ended[w] + 1]
    /\ pc' = [pc EXCEPT ![w] = "cleanup"]
    /\ UNCHANGED <<running_streams, wid, req, stop_flag, count, gen, slept, evlog, stopRet, stopSaw>>
    /\ UNCHANGED <<mgrVars, evalVars>>

\* lines 239-241: under the lock, delete the entry found under stream_id
Cleanup(w) ==
    /\ pc[w] = "cleanup"
    /\ running_streams' = [running_streams EXCEPT ![wid[w]] = NoWorker]
    /\ pc' = [pc EXCEPT ![w] = "done"]
    /\ UNCHANGED <<wid, req, stop_flag, count, gen, slept, evlog,
                   ended, stopRet, stopSaw>>
    /\ UNCHANGED <<mgrVars, evalVars>>

\* stop_stream (lines 249-255)
StopStream(i) ==
    /\ LET w == running_streams[i] IN
        /\ stop_flag' = IF StopResult(i) /\ w # NoWorker
                          THEN [stop_flag EXCEPT ![w] = TRUE] ELSE stop_flag
        /\ stopRet' = IF StopResult(i) THEN "True" ELSE "False"
        /\ stopSaw' = IF w = NoWorker THEN "absent"
                       ELSE IF stop_flag[w] THEN "asked" ELSE "fresh"
    /\ UNCHANGED <<running_streams, pc, wid, req, count, gen, slept, evlog, ended>>
    /\ UNCHANGED <<mgrVars, evalVars>>

\* one stream_tests call with any interval, max_tests and selector, run from
\* its start to its end with stop_stream calls at any moment
RunRequests ==
    { [run_id |-> <<>>, sel |-> s, interval |-> i, max_tests |-> m] :
        s \in {RandomSel, ListSel(<<0>>)}, i \in {0, 1},
        m \in {<<>>} \cup {<<n>> : n \in 0..MaxTicks} }

\* the one stream_tests call of the run
FirstStream(r) ==
    /\ \A w \in Workers : pc[w] = "idle"
    /\ StreamTests(r)

RunNext ==
    \/ \E r \in RunRequests : FirstStream(r)
    \/ \E w \in Workers : LoopTop(w)
    \/ \E w \in Workers, s \in {"OK", "ERROR"}, raised \in BOOLEAN : Tick(w, s, raised)
    \/ \E w \in Workers : SleepStep(w)
    \/ \E w \in Workers : PublishEnded(w)
    \/ \E w \in Workers : Cleanup(w)
    \/ \E i \in StreamIds : StopStream(i)

RunSpec == SimInit /\ [][RunNext]_vars

(* --------------------- backend/main.py: helpers ------------------------ *)
\* scores are in thousandths: 800 is 0.8
AUTO_ALERT_THRESHOLD == 800
WARN_THRESHOLD == 500

\* random.randint(-30, 730) of the fallback payload (line 303), by its two
\* ends: expired (an alert follows) and far away (none does)
StreamDays == {-30, 730}
\* expiry_date of a /predict request: absent, or a date 45 days ahead
PredictDays == {<<>>, <<45>>}

Range(f) == {f[k] : k \in DOMAIN f}

\* heuristic_fake_score (lines 159-171); random.uniform(0, hi) by its upper end
HeuristicScores(d) ==
    IF d = <<>> THEN {250}
    ELSE IF d[1] <= 0 THEN {950}
    ELSE IF d[1] <= 90 THEN {850}
    ELSE IF d[1] <= 120 THEN {600}
    ELSE {350}

\* lines 316 and 385
PredictedFake(score) == IF score >= AUTO_ALERT_THRESHOLD THEN 1 ELSE 0

\* lines 203-228: (ed_dt - now).days, for an expiry d whole days after the
\* date the payload was made: d less the time gone by since, rounded down
EvalDays(d, late) == IF d = <<>> THEN <<>> ELSE IF late THEN <<d[1] - 1>> ELSE d

\* rules in the other order: the score rules first, the expiry rules after
EvaluateLevelScoreFirst(days, score, pred) ==
    IF pred = 1 \/ score >= AUTO_ALERT_THRESHOLD THEN "CRITICAL"
    ELSE IF score >= WARN_THRESHOLD THEN "WARNING"
    ELSE IF days # <<>> /\ days[1] <= 90 THEN "CRITICAL"
    ELSE IF days # <<>> /\ days[1] <= 120 THEN "WARNING"
    ELSE "none"

\* lines 230-252: the level, "none" for no alert
EvaluateLevel(days, score, pred) ==
    IF days # <<>> /\ days[1] <= 90 THEN "CRITICAL"
    ELSE IF days # <<>> /\ days[1] <= 120 THEN "WARNING"
    ELSE IF pred = 1 \/ score >= AUTO_ALERT_THRESHOLD THEN "CRITICAL"
    ELSE IF score >= WARN_THRESHOLD THEN "WARNING"
    ELSE "none"

\* a for loop over self.active itself, as it is at each step
FanListLive(t) == active

\* line 120: the for loop of broadcast runs over the copy list(self.active)
FanList(t) == snap[t]

\* an except branch that swallows the error and keeps the websocket
RemoveNothing(rem, ws) == rem

\* lines 123-124: except Exception: remove.append(ws)
RemoveAfterError(rem, ws) == Append(rem, ws)

\* lines 113-115, for every r in remove: self.active without r
WithoutAll(list, rem) ==
    LET Keep(x) == x \notin Range(rem) IN SelectSeq(list, Keep)

\* where a task goes when its broadcast is over: after the test_result to
\* evaluate_and_handle_alert (line 329), after the alert back to the caller,
\* which sleeps (line 338) or, for /predict, returns (line 403)
AfterBroadcast(t) ==
    IF ev[t] = "test_result" THEN "eval"
    ELSE IF tkind[t] = "stream" THEN "sleep" ELSE "done"

\* where a task goes when evaluate_and_handle_alert returns
AfterEvaluate(t) == IF tkind[t] = "stream" THEN "sleep" ELSE "done"

NoPayload == [days |-> <<>>, fake_score |-> 0, predicted_fake |-> 0]

(* --------------------- backend/main.py: actions ------------------------ *)
MgrInit ==
    /\ active = <<>>
    /\ phase = [ws \in Sockets |-> "new"]
    /\ sendq = [ws \in Sockets |-> <<>>]
    /\ received = [ws \in Sockets |-> 0]
    /\ cur = NoTask
    /\ tkind = [t \in Tasks |-> "none"]
    /\ tpc = [t \in Tasks |-> "idle"]
    /\ ticks = [t \in Tasks |-> 0]
    /\ payload = [t \in Tasks |-> NoPayload]
    /\ ev = [t \in Tasks |-> "none"]
    /\ msg = [t \in Tasks |-> 0]
    /\ snap = [t \in Tasks |-> <<>>]
    /\ idx = [t \in Tasks |-> 0]
    /\ remove = [t \in Tasks |-> <<>>]
    /\ lvl = [t \in Tasks |-> "none"]
    /\ ncalls = 0
    /\ db = {}
    /\ atCall = [t \in Tasks |-> {}]
    /\ attempts = [t \in Tasks |-> <<>>]
    /\ failedTo = [t \in Tasks |-> {}]
    /\ delivered = [t \in Tasks |-> {}]
    /\ owed = [t \in Tasks |-> {}]
    /\ unsaved = [t \in Tasks |-> FALSE]
    /\ SimIdle
    /\ EvalIdle

sockVars == <<active, phase, sendq, received>>
callVars == <<msg, snap, idx, remove, ncalls, atCall, attempts, failedTo, delivered>>

\* websocket_endpoint, ConnectionManager.connect (lines 109-111, 458-461):
\* once accept() is over the socket is appended
Connect(ws) ==
    /\ cur = NoTask
    /\ phase[ws] = "new"
    /\ \A v \in Sockets : v < ws => phase[v] # "new"
    /\ active' = Append(active, ws)
    /\ phase' = [phase EXCEPT ![ws] = "open"]
    /\ UNCHANGED <<sendq, received, cur, tkind, tpc, ticks, payload, ev, lvl, db>>
    /\ UNCHANGED callVars
    /\ UNCHANGED <<owed, unsaved>>
    /\ UNCHANGED <<simVars, evalVars>>

\* the connection breaks: from now on a send on it raises, and the endpoint
\* has not yet been told
Break(ws) ==
    /\ cur = NoTask
    /\ phase[ws] = "open"
    /\ phase' = [phase EXCEPT ![ws] = "closed"]
    /\ UNCHANGED <<active, sendq, received, cur, tkind, tpc, ticks, payload, ev, lvl, db>>
    /\ UNCHANGED callVars
    /\ UNCHANGED <<owed, unsaved>>
    /\ UNCHANGED <<simVars, evalVars>>

\* websocket_endpoint: receive_text raises, manager.disconnect (lines 113-115,
\* 467-473); a socket no longer in active is left alone
Disconnect(ws) ==
    /\ cur = NoTask
    /\ ws \in Range(active)
    /\ phase' = [phase EXCEPT ![ws] = "closed"]
    /\ active' = WithoutAll(active, <<ws>>)
    /\ UNCHANGED <<sendq, received, cur, tkind, tpc, ticks, payload, ev, lvl, db>>
    /\ UNCHANGED callVars
    /\ UNCHANGED <<owed, unsaved>>
    /\ UNCHANGED <<simVars, evalVars>>

\* start_stream (lines 406-414): the task is handed to the background tasks
StartStream(t) ==
    /\ cur = NoTask
    /\ tkind[t] = "none"
    /\ \A u \in Tasks : u < t => tkind[u] # "none"
    /\ tkind' = [tkind EXCEPT ![t] = "stream"]
    /\ tpc' = [tpc EXCEPT ![t] = "loop"]
    /\ UNCHANGED <<cur, ticks, payload, ev, lvl, db>>
    /\ UNCHANGED sockVars
    /\ UNCHANGED callVars
    /\ UNCHANGED <<owed, unsaved>>
    /\ UNCHANGED <<simVars, evalVars>>

\* a stream task that evaluates the payload of a tick without having
\* broadcast it
StreamLoopEvalFirst(t, d, score) ==
    /\ cur = NoTask
    /\ tpc[t] = "loop"
    /\ score \in HeuristicScores(<<d>>)
    /\ IF ticks[t] < MgrTicks
         THEN /\ payload' = [payload EXCEPT ![t] =
                    [days |-> <<d>>, fake_score |-> score,
                     predicted_fake |-> PredictedFake(score)]]
              /\ tpc' = [tpc EXCEPT ![t] = "eval"]
              /\ cur' = t
              /\ owed' = [owed EXCEPT ![t] = Range(active)]
         ELSE /\ tpc' = [tpc EXCEPT ![t] = "done"]
              /\ UNCHANGED <<payload, cur, owed>>
    /\ UNCHANGED <<tkind, ticks, ev, lvl, db>>
    /\ UNCHANGED sockVars
    /\ UNCHANGED callVars
    /\ UNCHANGED unsaved
    /\ UNCHANGED <<simVars, evalVars>>

\* _stream_simulator_task, lines 291-319: the loop test, and the payload of
\* one more tick; the task runs when the loop is free (at its start, and
\* when asyncio.sleep is over)
StreamLoop(t, d, score) ==
    /\ cur = NoTask
    /\ tpc[t] = "loop"
    /\ score \in HeuristicScores(<<d>>)
    /\ IF ticks[t] < MgrTicks
         THEN /\ payload' = [payload EXCEPT ![t] =
                    [days |-> <<d>>, fake_score |-> score,
                     predicted_fake |-> PredictedFake(score)]]
              /\ ev' = [ev EXCEPT ![t] = "test_result"]
              /\ tpc' = [tpc EXCEPT ![t] = "bcast"]
              /\ cur' = t
              /\ owed' = [owed EXCEPT ![t] = Range(active)]
         ELSE /\ tpc' = [tpc EXCEPT ![t] = "done"]
              /\ UNCHANGED <<payload, ev, cur, owed>>
    /\ UNCHANGED <<tkind, ticks, lvl, db>>
    /\ UNCHANGED sockVars
    /\ UNCHANGED callVars
    /\ UNCHANGED unsaved
    /\ UNCHANGED <<simVars, evalVars>>

\* predict (lines 370-399), up to the call of evaluate_and_handle_alert
Predict(t, d, score) ==
    /\ cur = NoTask
    /\ tkind[t] = "none"
    /\ \A u \in Tasks : u < t => tkind[u] # "none"
    /\ score \in HeuristicScores(d)
    /\ tkind' = [tkind EXCEPT ![t] = "predict"]
    /\ payload' = [payload EXCEPT ![t] =
            [days |-> d, fake_score |-> score, predicted_fake |-> PredictedFake(score)]]
    /\ tpc' = [tpc EXCEPT ![t] = "eval"]
    /\ cur' = t
    /\ UNCHANGED <<ticks, ev, lvl, db>>
    /\ UNCHANGED sockVars
    /\ UNCHANGED callVars
    /\ UNCHANGED <<owed, unsaved>>
    /\ UNCHANGED <<simVars, evalVars>>

\* ConnectionManager.broadcast, lines 117-120: payload, remove, the copy
BroadcastBegin(t) ==
    /\ cur = t
    /\ tpc[t] = "bcast"
    /\ ncalls < MaxCalls
    /\ ncalls' = ncalls + 1
    /\ msg' = [msg EXCEPT ![t] = ncalls + 1]
    /\ snap' = [snap EXCEPT ![t] = active]
    /\ idx' = [idx EXCEPT ![t] = 1]
    /\ remove' = [remove EXCEPT ![t] = <<>>]
    /\ atCall' = [atCall EXCEPT ![t] = Range(active)]
    /\ attempts' = [attempts EXCEPT ![t] = <<>>]
    /\ failedTo' = [failedTo EXCEPT ![t] = {}]
    /\ delivered' = [delivered EXCEPT ![t] = {}]
    /\ tpc' = [tpc EXCEPT ![t] = "fan"]
    /\ UNCHANGED <<cur, tkind, ticks, payload, ev, lvl, db>>
    /\ UNCHANGED sockVars
    /\ UNCHANGED <<owed, unsaved>>
    /\ UNCHANGED <<simVars, evalVars>>

\* lines 120-122: the next websocket of the loop, and the task is suspended
\* in await ws.send_text(payload); or the loop is over
FanOut(t) ==
    /\ cur = t
    /\ tpc[t] = "fan"
    /\ IF idx[t] <= Len(FanList(t))
         THEN LET ws == FanList(t)[idx[t]] IN
              /\ sendq' = [sendq EXCEPT ![ws] = Append(sendq[ws], t)]
              /\ attempts' = [attempts EXCEPT ![t] = Append(attempts[t], ws)]
              /\ tpc' = [tpc EXCEPT ![t] = "sending"]
              /\ cur' = NoTask
         ELSE /\ tpc' = [tpc EXCEPT ![t] = "unsub"]
              /\ UNCHANGED <<sendq, attempts, cur>>
    /\ UNCHANGED <<active, phase, received, tkind, ticks, payload, ev, lvl, db>>
    /\ UNCHANGED <<msg, snap, idx, remove, ncalls, atCall, failedTo, delivered>>
    /\ UNCHANGED <<owed, unsaved>>
    /\ UNCHANGED <<simVars, evalVars>>

\* the websocket a suspended task is sending to
SendingTo(t) == attempts[t][Len(attempts[t])]

\* line 122: the send completes, which takes a client that reads; one
\* connection carries its frames in the order the sends were made
SendOk(t) ==
    /\ cur = NoTask
    /\ tpc[t] = "sending"
    /\ LET ws == SendingTo(t) IN
        /\ phase[ws] = "open"
        /\ Head(sendq[ws]) = t
        /\ sendq' = [sendq EXCEPT ![ws] = Tail(sendq[ws])]
        /\ received' = [received EXCEPT ![ws] = msg[t]]
        /\ delivered' = [delivered EXCEPT ![t] = delivered[t] \cup {ws}]
    /\ idx' = [idx EXCEPT ![t] = idx[t] + 1]
    /\ tpc' = [tpc EXCEPT ![t] = "fan"]
    /\ cur' = t
    /\ UNCHANGED <<active, phase, tkind, ticks, payload, ev, lvl, db>>
    /\ UNCHANGED <<msg, snap, remove, ncalls, atCall, attempts, failedTo>>
    /\ owed' = [owed EXCEPT ![t] = IF ev[t] = "test_result" THEN owed[t] \ {SendingTo(t)} ELSE owed[t]]
    /\ UNCHANGED unsaved
    /\ UNCHANGED <<simVars, evalVars>>

\* lines 122-124: the send raises, the websocket goes to the remove list
SendRaise(t) ==
    /\ cur = NoTask
    /\ tpc[t] = "sending"
    /\ LET ws == SendingTo(t) IN
        /\ phase[ws] = "closed"
        /\ Head(sendq[ws]) = t
        /\ sendq' = [sendq EXCEPT ![ws] = Tail(sendq[ws])]
        /\ remove' = [remove EXCEPT ![t] = RemoveAfterError(remove[t], ws)]
        /\ failedTo' = [failedTo EXCEPT ![t] = failedTo[t] \cup {ws}]
    /\ idx' = [idx EXCEPT ![t] = idx[t] + 1]
    /\ tpc' = [tpc EXCEPT ![t] = "fan"]
    /\ cur' = t
    /\ UNCHANGED <<active, phase, received, tkind, ticks, payload, ev, lvl, db>>
    /\ UNCHANGED <<msg, snap, ncalls, atCall, attempts, delivered>>
    /\ UNCHANGED <<owed, unsaved>>
    /\ UNCHANGED <<simVars, evalVars>>

\* lines 125-126: for r in remove: self.disconnect(r); broadcast returns
Unsubscribe(t) ==
    /\ cur = t
    /\ tpc[t] = "unsub"
    /\ active' = WithoutAll(active, remove[t])
    /\ tpc' = [tpc EXCEPT ![t] = "ret"]
    /\ UNCHANGED <<phase, sendq, received, cur, tkind, ticks, payload, ev, lvl, db>>
    /\ UNCHANGED callVars
    /\ UNCHANGED <<owed, unsaved>>
    /\ UNCHANGED <<simVars, evalVars>>

\* the caller goes on after await manager.broadcast (lines 323-329, 276-280)
Return(t) ==
    /\ cur = t
    /\ tpc[t] = "ret"
    /\ tpc' = [tpc EXCEPT ![t] = AfterBroadcast(t)]
    /\ cur' = IF AfterBroadcast(t) = "done" THEN NoTask ELSE t
    /\ msg' = [msg EXCEPT ![t] = 0]
    /\ snap' = [snap EXCEPT ![t] = <<>>]
    /\ idx' = [idx EXCEPT ![t] = 0]
    /\ remove' = [remove EXCEPT ![t] = <<>>]
    /\ atCall' = [atCall EXCEPT ![t] = {}]
    /\ attempts' = [attempts EXCEPT ![t] = <<>>]
    /\ failedTo' = [failedTo EXCEPT ![t] = {}]
    /\ delivered' = [delivered EXCEPT ![t] = {}]
    /\ ev' = [ev EXCEPT ![t] = "none"]
    /\ lvl' = [lvl EXCEPT ![t] = IF ev[t] = "alert" THEN "none" ELSE lvl[t]]
    /\ payload' = [payload EXCEPT ![t] = IF ev[t] = "alert" THEN NoPayload ELSE payload[t]]
    /\ UNCHANGED <<tkind, ticks, db, ncalls>>
    /\ UNCHANGED sockVars
    /\ owed' = [owed EXCEPT ![t] = IF ev[t] = "alert" THEN {} ELSE owed[t]]
    /\ unsaved' = [unsaved EXCEPT ![t] = IF ev[t] = "alert" THEN FALSE ELSE unsaved[t]]
    /\ UNCHANGED <<simVars, evalVars>>

\* evaluate_and_handle_alert, lines 203-267: the level, and the alert
Evaluate(t, late) ==
    /\ cur = t
    /\ tpc[t] = "eval"
    /\ LET level == EvaluateLevel(EvalDays(payload[t].days, late),
                                  payload[t].fake_score, payload[t].predicted_fake) IN
        /\ lvl' = [lvl EXCEPT ![t] = level]
        /\ tpc' = [tpc EXCEPT ![t] = IF level = "none" THEN AfterEvaluate(t) ELSE "save"]
        /\ cur' = IF level = "none" /\ AfterEvaluate(t) = "done" THEN NoTask ELSE t
        /\ payload' = [payload EXCEPT ![t] = IF level = "none" THEN NoPayload ELSE payload[t]]
    /\ UNCHANGED <<tkind, ticks, ev, db>>
    /\ UNCHANGED sockVars
    /\ UNCHANGED callVars
    /\ owed' = [owed EXCEPT ![t] =
            IF EvaluateLevel(EvalDays(payload[t].days, late), payload[t].fake_score,
                             payload[t].predicted_fake) = "none" THEN {} ELSE owed[t]]
    /\ UNCHANGED unsaved
    /\ UNCHANGED <<simVars, evalVars>>

\* a save_alert_to_db that returns without having written the row
SaveAlertDropped(t, fails) ==
    /\ cur = t
    /\ tpc[t] = "save"
    /\ db' = db
    /\ ev' = [ev EXCEPT ![t] = "alert"]
    /\ tpc' = [tpc EXCEPT ![t] = "bcast"]
    /\ UNCHANGED <<cur, tkind, ticks, payload, lvl>>
    /\ UNCHANGED sockVars
    /\ UNCHANGED callVars
    /\ UNCHANGED owed
    /\ unsaved' = [unsaved EXCEPT ![t] = fails]
    /\ UNCHANGED <<simVars, evalVars>>

\* lines 269-276: save_alert_to_db (its failure is swallowed), then the
\* broadcast of the alert; the alert is named by the call that broadcasts it
SaveAlert(t, fails) ==
    /\ cur = t
    /\ tpc[t] = "save"
    /\ db' = IF fails THEN db ELSE db \cup {ncalls + 1}
    /\ ev' = [ev EXCEPT ![t] = "alert"]
    /\ tpc' = [tpc EXCEPT ![t] = "bcast"]
    /\ UNCHANGED <<cur, tkind, ticks, payload, lvl>>
    /\ UNCHANGED sockVars
    /\ UNCHANGED callVars
    /\ UNCHANGED owed
    /\ unsaved' = [unsaved EXCEPT ![t] = fails]
    /\ UNCHANGED <<simVars, evalVars>>

\* line 338: await asyncio.sleep(interval); the loop is free meanwhile
Sleep(t) ==
    /\ cur = t
    /\ tpc[t] = "sleep"
    /\ ticks' = [ticks EXCEPT ![t] = ticks[t] + 1]
    /\ tpc' = [tpc EXCEPT ![t] = "loop"]
    /\ cur' = NoTask
    /\ UNCHANGED <<tkind, payload, ev, lvl, db>>
    /\ UNCHANGED sockVars
    /\ UNCHANGED callVars
    /\ UNCHANGED <<owed, unsaved>>
    /\ UNCHANGED <<simVars, evalVars>>

\* what the event loop does for a task without waiting for a client
TaskStep(t) ==
    \/ \E d \in StreamDays, sc \in {350, 950} : StreamLoop(t, d, sc)
    \/ BroadcastBegin(t)
    \/ FanOut(t)
    \/ SendRaise(t)
    \/ Unsubscribe(t)
    \/ Return(t)
    \/ \E late \in BOOLEAN : Evaluate(t, late)
    \/ \E fails \in BOOLEAN : SaveAlert(t, fails)
    \/ Sleep(t)

MgrNext ==
    \/ \E ws \in Sockets : Connect(ws)
    \/ \E ws \in Sockets : Break(ws)
    \/ \E ws \in Sockets : Disconnect(ws)
    \/ \E t \in Tasks : StartStream(t)
    \/ \E t \in Tasks, d \in PredictDays, sc \in {250, 850} : Predict(t, d, sc)
    \/ \E t \in Tasks, d \in StreamDays, sc \in {350, 950} : StreamLoop(t, d, sc)
    \/ \E t \in Tasks : BroadcastBegin(t)
    \/ \E t \in Tasks : FanOut(t)
    \/ \E t \in Tasks : SendOk(t)
    \/ \E t \in Tasks : SendRaise(t)
    \/ \E t \in Tasks : Unsubscribe(t)
    \/ \E t \in Tasks : Return(t)
    \/ \E t \in Tasks, late \in BOOLEAN : Evaluate(t, late)
    \/ \E t \in Tasks, fails \in BOOLEAN : SaveAlert(t, fails)
    \/ \E t \in Tasks : Sleep(t)

MgrSpec == MgrInit /\ [][MgrNext]_vars

\* the event loop runs every task that can run, and a send on a closed
\* connection raises; nothing makes a client read
MgrFair == MgrSpec /\ \A t \in Tasks : WF_vars(TaskStep(t))

(* ------------------------------ Simulator ------------------------------ *)
SimNext ==
    \/ \E r \in Requests : StreamTests(r)
    \/ \E w \in Workers : LoopTop(w)
    \/ \E w \in Workers, s \in {"OK", "ERROR"}, raised \in BOOLEAN : Tick(w, s, raised)
    \/ \E w \in Workers : SleepStep(w)
    \/ \E w \in Workers : PublishEnded(w)
    \/ \E w \in Workers : Cleanup(w)
    \/ \E i \in StreamIds : StopStream(i)

Spec == SimInit /\ [][SimNext]_vars

(* ------------------------ event path: helpers ------------------------- *)
\* cap on the events one run of the event path makes
MaxEvents == 2
\* run_seconds of the stream task of the event path, in intervals
RunTicks == 2

\* an expiry field: absent, an ISO date (midnight), the ISO timestamp the
\* stream task makes (now + d days), or a string no parser reads; d is the
\* number of calendar days from today to the expiry
NoExpiry == [kind |-> "none", d |-> 0]
ExpiryOffsets == {-5, 90, 91, 121}
Expiries ==
    {NoExpiry, [kind |-> "junk", d |-> 0]}
        \cup {[kind |-> "date", d |-> n] : n \in ExpiryOffsets}
\* line 305: (datetime.now() + timedelta(days=days)).isoformat()
StreamExpiries == {[kind |-> "stamp", d |-> n] : n \in ExpiryOffsets}

\* what a caller of the evaluator passes: no expiry, one nobody reads, one past
CallExpiries == {NoExpiry, [kind |-> "junk", d |-> 0], [kind |-> "date", d |-> -5]}

\* scores, in thousandths: of a caller's dict (on both sides of 0.5 and 0.8)
\* and of _ml_score (on both sides of 0.7)
Scores == {300, 500, 800}
SimScores == {300, 750}

\* parse_days_to_expiry (lines 142-154): calendar days from today, None
\* (<<>>) when there is no date or it cannot be read
parse_days_to_expiry(x) ==
    IF x.kind \in {"none", "junk"} THEN <<>> ELSE <<x.d>>

\* evaluate_and_handle_alert, lines 203-228: days = (ed_dt - now).days, counted
\* from the clock (late: the time of day is past that of the expiry)
EvaluatorDays(x, late) ==
    IF x.kind \in {"none", "junk"} THEN <<>> ELSE EvalDays(<<x.d>>, late)

\* a dict without the keys an event may carry
NoResult ==
    [status |-> <<>>, expiry |-> NoExpiry, days_to_expiry |-> <<>>,
     fake_score |-> <<>>, predicted_fake |-> <<>>, raw_sensor |-> <<>>,
     test_result |-> <<>>, seq |-> <<>>]

\* _stream_simulator_task, lines 301-319: the fallback payload, scored; the
\* key holds None when the date is not read
StreamPayload(x, score) ==
    [NoResult EXCEPT !.expiry = x,
                     !.days_to_expiry = parse_days_to_expiry(x),
                     !.fake_score = <<score>>,
                     !.predicted_fake = <<PredictedFake(score)>>]

\* lines 329-334: the dict the stream task hands to the evaluator
StreamEvalArg(p) ==
    [NoResult EXCEPT !.expiry = p.expiry,
                     !.fake_score = p.fake_score,
                     !.predicted_fake = p.predicted_fake]

\* predict, lines 383-396: the result, which is what it evaluates
PredictResult(x, score) ==
    [NoResult EXCEPT !.expiry = x,
                     !.days_to_expiry = parse_days_to_expiry(x),
                     !.fake_score = <<score>>,
                     !.predicted_fake = <<PredictedFake(score)>>]

\* simulator.py line 172
threshold == 700

\* simulator.py line 173
SimPredictedFake(score) == IF score >= threshold THEN 1 ELSE 0

\* simulator.py lines 174-176: the label, flipped with a small probability
SimTestResult(pred, flip) ==
    IF (pred = 1) # flip THEN "FAIL" ELSE "PASS"

\* a simulator whose fault dict carries a score
simulate_hardware_testScored(fault, x, score, flip) ==
    [NoResult EXCEPT !.status = IF fault THEN <<"ERROR">> ELSE <<"OK">>,
                     !.expiry = x,
                     !.fake_score = <<score>>,
                     !.predicted_fake = <<SimPredictedFake(score)>>,
                     !.test_result = <<SimTestResult(SimPredictedFake(score), flip)>>,
                     !.raw_sensor = <<"readings">>]

\* Simulator.simulate_hardware_test (lines 145-188): the ERROR dict of a
\* hardware fault, or the scored dict
simulate_hardware_test(fault, x, score, flip) ==
    IF fault
      THEN [NoResult EXCEPT !.status = <<"ERROR">>]
      ELSE [NoResult EXCEPT !.status = <<"OK">>,
                            !.expiry = x,
                            !.fake_score = <<score>>,
                            !.predicted_fake = <<SimPredictedFake(score)>>,
                            !.test_result = <<SimTestResult(SimPredictedFake(score), flip)>>,
                            !.raw_sensor = <<"readings">>]

\* main.py lines 240-241: result.get("fake_score", 0.0), result.get("predicted_fake", 0)
ScoreOf(r) == IF r.fake_score = <<>> THEN 0 ELSE r.fake_score[1]
PredOfIgnored(r) == 0
PredOf(r) == IF r.predicted_fake = <<>> THEN 0 ELSE r.predicted_fake[1]

\* main.py lines 230-249: the reason that goes with the level
EvaluateReason(days, score, pred) ==
    IF days # <<>> /\ days[1] <= 90 THEN "Expiry within 3 months"
    ELSE IF days # <<>> /\ days[1] <= 120 THEN "Expiry within 4 months"
    ELSE IF pred = 1 \/ score >= AUTO_ALERT_THRESHOLD THEN "ML anomaly"
    ELSE IF score >= WARN_THRESHOLD THEN "ML suspicious"
    ELSE "none"

\* alerts.py lines 5-6
ALERTS_AUTO_ALERT_THRESHOLD == 800
ALERTS_WARN_THRESHOLD == 600

\* alerts.evaluate_and_alert, lines 10-20: the level, "none" for return None
AlertsLevel(score, pred) ==
    IF pred = 1 \/ score >= ALERTS_AUTO_ALERT_THRESHOLD THEN "CRITICAL"
    ELSE IF score >= ALERTS_WARN_THRESHOLD THEN "WARNING"
    ELSE "none"

\* json.dumps and json.loads: the text of a dict is not the dict
Dumps(r) == [json |-> r]
Loads(text) == text.json

\* main.py lines 259-267: the alert; uuid4 and time.time() are both given by
\* the number of the event
MakeAlert(n, level, reason, phone, r) ==
    [id |-> n, timestamp |-> n, level |-> level, manufacturer |-> "PharmaCorp",
     manufacturer_phone |-> phone, message |-> <<level, reason>>,
     data |-> Dumps(r)]

(* ------------------------ event path: actions -------------------------- *)
NoPath == [stage |-> "idle", src |-> "none", by |-> "none", result |-> NoResult,
           alert |-> <<>>, out |-> <<>>, faults |-> {}]

EvalInit ==
    /\ path = NoPath
    /\ rows = {}
    /\ loaded = <<>>
    /\ \E ph \in {<<>>, <<"555">>} :
          run = [task |-> "running", sent |-> <<>>, elapsed |-> 0, count |-> 0,
                 ticks |-> <<>>, nevents |-> 0, saved |-> 0, hurt |-> FALSE,
                 phone |-> ph]
    /\ SimIdle
    /\ MgrIdle

\* the event loop takes up a new event
CanMake == path.stage = "idle" /\ run.nevents < MaxEvents

\* _stream_simulator_task, lines 291-334: one tick; the payload is
\* broadcast as test_result (a broadcast that raises is passed over, lines
\* 322-325) and the evaluator is called; run.hurt is history: some tick of
\* the run had a broadcast, a save or a callback that raised
StreamEvent(x, score, raises) ==
    /\ CanMake
    /\ run.task = "running"
    /\ run.elapsed < RunTicks
    /\ score \in HeuristicScores(parse_days_to_expiry(x))
    /\ path' = [NoPath EXCEPT !.stage = "eval", !.src = "stream",
                              !.result = StreamEvalArg(StreamPayload(x, score))]
    /\ run' = [run EXCEPT !.sent = IF raises THEN run.sent
                                   ELSE Append(run.sent, "test_result"),
                          !.hurt = run.hurt \/ raises,
                          !.nevents = run.nevents + 1]
    /\ loaded' = <<>>
    /\ UNCHANGED rows
    /\ UNCHANGED <<simVars, mgrVars>>

\* line 291: run_seconds are over, the loop and the task end
StreamEnd ==
    /\ path.stage = "idle"
    /\ run.task = "running"
    /\ run.elapsed >= RunTicks
    /\ run' = [run EXCEPT !.task = "done"]
    /\ UNCHANGED <<path, rows, loaded>>
    /\ UNCHANGED <<simVars, mgrVars>>

\* predict, lines 379-399
PredictEvent(x, score) ==
    /\ CanMake
    /\ score \in HeuristicScores(parse_days_to_expiry(x))
    /\ path' = [NoPath EXCEPT !.stage = "eval", !.src = "predict",
                              !.result = PredictResult(x, score)]
    /\ run' = [run EXCEPT !.nevents = run.nevents + 1]
    /\ loaded' = <<>>
    /\ UNCHANGED rows
    /\ UNCHANGED <<simVars, mgrVars>>

\* simulator.py lines 216-223: one tick of a runner; the event it hands to
\* the callback is then given to an evaluator; run.ticks keeps the status of
\* every tick the runner has made
SimEvent(fault, x, score, flip) ==
    /\ CanMake
    /\ LET res == simulate_hardware_test(fault, x, score, flip) IN
        /\ path' = [NoPath EXCEPT !.stage = "eval", !.src = "sim",
                                  !.result = [res EXCEPT !.seq = <<run.count>>]]
        /\ run' = [run EXCEPT !.count = NextCount(run.count, res.status[1], FALSE),
                              !.ticks = Append(run.ticks, res.status[1]),
                              !.nevents = run.nevents + 1]
    /\ loaded' = <<>>
    /\ UNCHANGED rows
    /\ UNCHANGED <<simVars, mgrVars>>

\* evaluate_and_handle_alert called with a dict of the caller's making
CallEvent(x, score, pred) ==
    /\ CanMake
    /\ path' = [NoPath EXCEPT !.stage = "eval", !.src = "call",
                              !.result = [NoResult EXCEPT !.expiry = x,
                                                          !.fake_score = <<score>>,
                                                          !.predicted_fake = <<pred>>]]
    /\ run' = [run EXCEPT !.nevents = run.nevents + 1]
    /\ loaded' = <<>>
    /\ UNCHANGED rows
    /\ UNCHANGED <<simVars, mgrVars>>

\* evaluate_and_handle_alert, lines 203-267: days, level and reason, then
\* return None or the alert dict
EvaluateAndHandle(late) ==
    /\ path.stage = "eval"
    /\ LET r == path.result
           days == EvaluatorDays(r.expiry, late)
           level == EvaluateLevel(days, ScoreOf(r), PredOf(r))
           reason == EvaluateReason(days, ScoreOf(r), PredOf(r))
       IN  path' = IF level = "none"
                     THEN [path EXCEPT !.stage = "returned", !.by = "main"]
                     ELSE [path EXCEPT !.stage = "save", !.by = "main",
                                       !.alert = MakeAlert(run.nevents, level, reason, run.phone, r)]
    /\ UNCHANGED <<rows, loaded, run>>
    /\ UNCHANGED <<simVars, mgrVars>>

\* alerts.evaluate_and_alert (alerts.py lines 8-35) on a simulator test dict:
\* None, or an alert whose save_alert raises (db.py line 25 binds six values
\* to five placeholders)
EvaluateAndAlert ==
    /\ path.stage = "eval"
    /\ path.src = "sim"
    /\ path' = [path EXCEPT !.by = "alerts", !.stage =
                    IF AlertsLevel(ScoreOf(path.result), PredOf(path.result)) = "none"
                      THEN "returned" ELSE "raised"]
    /\ UNCHANGED <<rows, loaded, run>>
    /\ UNCHANGED <<simVars, mgrVars>>

\* save_alert_to_db (lines 67-83): INSERT OR REPLACE of the seven columns
SaveRow(a) ==
    [id |-> a.id, timestamp |-> a.timestamp, level |-> a.level,
     manufacturer |-> a.manufacturer, manufacturer_phone |-> a.manufacturer_phone,
     message |-> a.message, data |-> a.data]

\* where evaluate_and_handle_alert goes when save_alert_to_db raised
\* (lines 270-273: except Exception: pass)
AfterSaveErrorReturns == "returned"
AfterSaveError == "bcast"

\* lines 269-273; run.saved counts the calls of save_alert_to_db that
\* returned
SaveAlertToDb(fails) ==
    /\ path.stage = "save"
    /\ IF fails
         THEN /\ path' = [path EXCEPT !.stage = AfterSaveError,
                                      !.faults = path.faults \cup {"save"}]
              /\ UNCHANGED <<rows, run>>
         ELSE /\ path' = [path EXCEPT !.stage = "bcast"]
              /\ rows' = {r \in rows : r.id # path.alert.id} \cup {SaveRow(path.alert)}
              /\ run' = [run EXCEPT !.saved = run.saved + 1]
    /\ UNCHANGED loaded
    /\ UNCHANGED <<simVars, mgrVars>>

\* lines 274-280: the broadcast of the alert, whose failure is passed over,
\* and return alert
BroadcastAlert(raises) ==
    /\ path.stage = "bcast"
    /\ path' = [path EXCEPT !.stage = "returned",
                            !.out = IF raises THEN <<>> ELSE <<path.alert>>,
                            !.faults = IF raises THEN path.faults \cup {"broadcast"}
                                       ELSE path.faults]
    /\ UNCHANGED <<rows, loaded, run>>
    /\ UNCHANGED <<simVars, mgrVars>>

\* the handling of the event in hand raised somewhere: the callback of the
\* runner, or the save or the broadcast of the alert
TickFailed == path.stage = "raised" \/ path.faults # {}

\* a caller that gives up its loop when the handling of an event failed
CallerEndsOnError ==
    /\ path.stage \in {"returned", "raised"}
    /\ path' = NoPath
    /\ run' = [run EXCEPT !.elapsed = IF path.src = "stream" THEN run.elapsed + 1
                                      ELSE run.elapsed,
                          !.hurt = run.hurt \/ TickFailed,
                          !.task = IF TickFailed /\ path.src = "stream" THEN "done"
                                   ELSE run.task]
    /\ UNCHANGED <<rows, loaded>>
    /\ UNCHANGED <<simVars, mgrVars>>

\* the caller goes on: the stream task sleeps one interval (lines 335-338),
\* predict returns (lines 400-403)
CallerGoesOn ==
    /\ path.stage \in {"returned", "raised"}
    /\ path' = NoPath
    /\ run' = [run EXCEPT !.elapsed = IF path.src = "stream" THEN run.elapsed + 1
                                      ELSE run.elapsed,
                          !.hurt = run.hurt \/ TickFailed]
    /\ UNCHANGED <<rows, loaded>>
    /\ UNCHANGED <<simVars, mgrVars>>

\* the ids of a set of rows, latest timestamp first
RECURSIVE LatestFirst(_)
LatestFirst(S) ==
    IF S = {} THEN <<>>
    ELSE LET m == CHOOSE r \in S : \A q \in S : q.timestamp <= r.timestamp
         IN  <<m>> \o LatestFirst(S \ {m})

\* a load_alerts that hands back the stored text of the data column
LoadRowRaw(r) == r

\* load_alerts, lines 93-101: a row as it is returned
LoadRow(r) == [r EXCEPT !.data = Loads(r.data)]

\* load_alerts (lines 85-102): ORDER BY timestamp DESC LIMIT ?
LoadAlerts(limit) ==
    /\ path.stage = "idle"
    /\ rows # {}
    /\ LET all == LatestFirst(rows)
           n == IF limit < Len(all) THEN limit ELSE Len(all)
       IN  loaded' = [k \in 1..n |-> LoadRow(all[k])]
    /\ UNCHANGED <<path, rows, run>>
    /\ UNCHANGED <<simVars, mgrVars>>

EvalNext ==
    \/ \E x \in StreamExpiries, sc \in {350, 600, 850, 950}, raises \in BOOLEAN :
          StreamEvent(x, sc, raises)
    \/ StreamEnd
    \/ \E x \in Expiries, sc \in {250, 350, 600, 850, 950} : PredictEvent(x, sc)
    \/ \E fault, flip \in BOOLEAN, sc \in SimScores : SimEvent(fault, NoExpiry, sc, flip)
    \/ \E x \in CallExpiries, sc \in Scores, pred \in {0, 1} : CallEvent(x, sc, pred)
    \/ \E late \in BOOLEAN : EvaluateAndHandle(late)
    \/ EvaluateAndAlert
    \/ \E fails \in BOOLEAN : SaveAlertToDb(fails)
    \/ \E raises \in BOOLEAN : BroadcastAlert(raises)
    \/ CallerGoesOn
    \/ \E limit \in 1..MaxEvents : LoadAlerts(limit)

EvalSpec == EvalInit /\ [][EvalNext]_vars

(* ------------------------- Simulator: properties ----------------------- *)
\* C1: once stop_stream(id) has returned True for a running stream, the
\* worker sees the flag at its loop top or within one polling quantum of its
\* sleep, the stream reaches STOPPED, and from then on no test event carrying
\* that id is published.  As steps: a worker whose flag is set does not die
\* short of STOPPED, sleeps no further quantum, and once it is STOPPED no
\* worker started before it under the same id publishes a test event.
C1_StopReachesStopped ==
    [][\A v \in Workers :
          (stop_flag[v] /\ pc[v] # "dead") =>
              /\ pc'[v] # "dead"
              /\ slept'[v] <= slept[v]
              /\ pc[v] = "done" =>
                    \A w \in Workers :
                        (w < v /\ wid[w] = wid[v]) => evlog'[w] = evlog[w]]_vars

\* C2: a worker that has stopped running, for whatever reason, has published
\* exactly one stream_ended message and its entry is no longer in
\* running_streams.
C2_EndedAndRemoved ==
    \A w \in Workers :
        pc[w] \in {"done", "dead"} => (ended[w] = 1 /\ Entry(wid[w]) # w)

\* C3: at most one live worker is associated with a stream id, and every live
\* worker is the one running_streams holds under its id (so stop_stream
\* reaches it and no other worker's cleanup deletes its entry).
C3_OneWorkerPerId ==
    \A v \in Workers :
        Live(v) =>
            /\ Entry(wid[v]) = v
            /\ \A w \in Workers : (Live(w) /\ w # v) => wid[w] # wid[v]

\* C4: the events one stream_tests call hands to the callback carry seq
\* 0, 1, 2, ... in publication order, without repeat or gap, whatever the
\* status of a tick and whatever the other streams do.
C4_SeqCounts ==
    \A w \in Workers :
        \A k \in 1..Len(evlog[w]) : evlog[w][k] = k - 1

\* two streams have published, one of them more than one event
C4_Witness ==
    \E v, w \in Workers :
        v # w /\ Len(evlog[v]) >= 2 /\ Len(evlog[w]) >= 1

\* C5 as the specification states it: a stop_stream on an id whose worker
\* has already been asked to stop (a second stop, or one after stream_ended
\* was published on a stop) returns False; True is for a stream not yet
\* asked to stop.
C5_SecondStopFalse ==
    /\ stopSaw = "asked" => stopRet = "False"
    /\ stopRet = "True" => stopSaw = "fresh"

\* C5 as the code has it: stop_stream(id) returns True exactly when
\* running_streams holds an entry under id, asked to stop before or not, and
\* False exactly when it holds none.
C5_TrueIffRegistered ==
    /\ stopRet = "True" <=> stopSaw \in {"fresh", "asked"}
    /\ stopRet = "False" <=> stopSaw = "absent"

\* the last stop_stream call found a worker already asked to stop, one that
\* has published stream_ended and not yet removed its entry, and returned True
C5_Witness ==
    /\ stopRet = "True"
    /\ stopSaw = "asked"
    /\ \E w \in Workers :
          stop_flag[w] /\ pc[w] = "cleanup" /\ ended[w] = 1 /\ Entry(wid[w]) = w

\* C6: an endless stream (random selector, no max_tests) that nobody stops
\* ends once its duration has elapsed: after DurationTicks ticks it makes no
\* further test.
C6_EndsAfterDuration ==
    \A w \in Workers :
        (/\ req[w].sel.kind = "random"
         /\ req[w].max_tests = <<>>
         /\ ~stop_flag[w]
         /\ count[w] >= DurationTicks) => pc[w] \notin {"loop", "test"}

(* -------------------- ConnectionManager: properties -------------------- *)
\* C7: a subscriber whose send never completes does not keep broadcast from
\* going on: the task leaves that send after a bounded time.
C7_SendIsBounded ==
    \A t \in Tasks : (tpc[t] = "sending") ~> (tpc[t] # "sending")

\* C8: when broadcast returns (it returns, nothing is raised), every
\* websocket whose send raised is out of active, and every other websocket
\* that was in active at the call has received the message.
C8_FailedDropped ==
    \A t \in Tasks :
        tpc[t] = "ret" =>
            /\ failedTo[t] \cap Range(active) = {}
            /\ (atCall[t] \ failedTo[t]) \subseteq delivered[t]

\* a broadcast is returning after one send raised and another completed
C8_Witness ==
    \E t \in Tasks :
        tpc[t] = "ret" /\ failedTo[t] # {} /\ delivered[t] # {}

\* C9: a subscriber receives the messages of two broadcast calls in the
\* order of the calls: what it receives never carries a lower call number
\* than what it received before.
C9_CallOrder ==
    [][\A ws \in Sockets : received'[ws] >= received[ws]]_vars

\* C10: broadcast calls send_text once on each websocket that was in active
\* when it was called and on no other: never twice, never on one that
\* connected later, and on all of them by the end of the loop.
C10_RecipientsAsOfCall ==
    \A t \in Tasks :
        /\ \A j, k \in 1..Len(attempts[t]) : attempts[t][j] = attempts[t][k] => j = k
        /\ Range(attempts[t]) \subseteq atCall[t]
        /\ tpc[t] \in {"unsub", "ret"} => Range(attempts[t]) = atCall[t]

\* a broadcast that made a send is returning, and a websocket that connected
\* while it was suspended is in active
C10_Witness ==
    \E t \in Tasks :
        /\ tpc[t] = "ret"
        /\ attempts[t] # <<>>
        /\ Range(active) \ atCall[t] # {}

C26_StoredBeforeDelivered ==
    \A t \in Tasks :
        (ev[t] = "alert" /\ tpc[t] \in {"fan", "sending", "unsub", "ret"}) =>
            /\ ~unsaved[t] => msg[t] \in db
            /\ unsaved[t] => msg[t] \notin db

\* an alert that was stored has been delivered to a websocket while another
\* task is in a broadcast of its own
C26_Witness ==
    \E t, u \in Tasks :
        /\ t # u
        /\ ev[t] = "alert"
        /\ ~unsaved[t]
        /\ delivered[t] # {}
        /\ msg[t] \in db
        /\ tpc[u] = "sending"

(* ----------------------- event path: properties ------------------------ *)
\* the evaluation of the event in hand is over
Evaluated == path.by = "main" /\ path.stage \in {"save", "bcast", "returned"}

\* C11: an event whose expiry is read and lies at most 90 days ahead (or is
\* past) gets a CRITICAL alert with the reason "Expiry within 3 months" from
\* evaluate_and_handle_alert, whatever its fake_score and predicted_fake.
C11_ExpirySoonCritical ==
    (/\ Evaluated
     /\ path.result.expiry.kind \in {"date", "stamp"}
     /\ path.result.expiry.d <= 90) =>
        /\ path.alert # <<>>
        /\ path.alert.level = "CRITICAL"
        /\ path.alert.message = <<"CRITICAL", "Expiry within 3 months">>

\* an expired event with a score of 0.5, not predicted fake, was evaluated
C11_Witness ==
    /\ path.stage = "returned"
    /\ path.result.expiry.kind = "date"
    /\ path.result.expiry.d < 0
    /\ ScoreOf(path.result) = 500
    /\ PredOf(path.result) = 0
    /\ path.alert # <<>>

\* C12: an event whose days_to_expiry, as parse_days_to_expiry counts it,
\* lies in (90,120] gets a WARNING alert with the reason "Expiry within
\* 4 months" (91 is not CRITICAL), and one with more than 120 days gets
\* no alert from an expiry rule.
C12_ExpiryFourMonthsWarning ==
    LET d == parse_days_to_expiry(path.result.expiry) IN
    (Evaluated /\ d # <<>>) =>
        /\ (d[1] > 90 /\ d[1] <= 120) =>
              /\ path.alert # <<>>
              /\ path.alert.message = <<"WARNING", "Expiry within 4 months">>
        /\ (d[1] > 120 /\ path.alert # <<>>) =>
              path.alert.message[2] \notin {"Expiry within 3 months",
                                            "Expiry within 4 months"}

\* C13 (as stated): for an event whose expiry is absent or unreadable the
\* score alone decides: CRITICAL from 0.8, WARNING from 0.5 to below 0.8,
\* and below 0.5 no alert, nothing stored and nothing broadcast, whatever
\* the other fields hold.
C13_ScoreAloneDecides ==
    LET r == path.result
        s == IF r.fake_score = <<>> THEN 0 ELSE r.fake_score[1]
    IN  (Evaluated /\ r.expiry.kind \in {"none", "junk"}) =>
            /\ s >= 800 => (path.alert # <<>> /\ path.alert.level = "CRITICAL")
            /\ (s >= 500 /\ s < 800) =>
                  (path.alert # <<>> /\ path.alert.level = "WARNING")
            /\ s < 500 =>
                  /\ path.alert = <<>>
                  /\ path.out = <<>>
                  /\ \A q \in rows : q.id # run.nevents

\* C13 (amended): for an event whose expiry is absent or unreadable the
\* alert is CRITICAL when predicted_fake is 1 or the score is at least 0.8,
\* WARNING when predicted_fake is not 1 and the score is from 0.5 to below
\* 0.8, and otherwise there is no alert, nothing stored, nothing broadcast.
C13_ScoreOrPredictionDecides ==
    LET r == path.result
        s == IF r.fake_score = <<>> THEN 0 ELSE r.fake_score[1]
        fake == r.predicted_fake = <<1>>
    IN  (Evaluated /\ r.expiry.kind \in {"none", "junk"}) =>
            /\ (fake \/ s >= 800) =>
                  (path.alert # <<>> /\ path.alert.level = "CRITICAL")
            /\ (~fake /\ s >= 500 /\ s < 800) =>
                  (path.alert # <<>> /\ path.alert.level = "WARNING")
            /\ (~fake /\ s < 500) =>
                  /\ path.alert = <<>>
                  /\ path.out = <<>>
                  /\ \A q \in rows : q.id # run.nevents

C13_Witness ==
    /\ path.stage = "returned"
    /\ path.by = "main"
    /\ path.result.expiry.kind = "junk"
    /\ path.result.predicted_fake = <<1>>
    /\ path.result.fake_score = <<300>>
    /\ path.alert # <<>>
    /\ path.alert.level = "CRITICAL"
    /\ path.out = <<path.alert>>

\* C14: storing and broadcasting a fired alert do not depend on each other:
\* when save_alert_to_db raised, the alert is broadcast all the same and
\* returned; when the broadcast failed, the row that was stored is still in
\* the store; neither failure leaves evaluate_and_handle_alert as an
\* exception, so its caller goes on.
C14_SaveAndBroadcastIndependent ==
    /\ path.by = "main" => path.stage # "raised"
    /\ (path.by = "main" /\ path.faults # {}) =>
          path.stage \in {"bcast", "returned"}
    /\ (path.by = "main" /\ path.stage = "returned" /\ path.alert # <<>>) =>
          /\ "broadcast" \notin path.faults => path.out = <<path.alert>>
          /\ "save" \notin path.faults => SaveRow(path.alert) \in rows

C14_Witness ==
    /\ path.stage = "returned"
    /\ path.src = "stream"
    /\ path.faults = {"save"}
    /\ path.alert # <<>>
    /\ path.out = <<path.alert>>
    /\ \A q \in rows : q.id # path.alert.id

\* C15: a simulator tick that hits the hardware fault is handed on as an
\* event of status ERROR without fake_score, predicted_fake or sensor
\* readings; it takes the next sequence number as any tick does (the
\* counter is the number of ticks made, and the event carries the number
\* before it); and whichever evaluator is given the event, no alert is
\* made, stored or broadcast and nothing is raised.
C15_FaultTickNoAlert ==
    /\ run.count = Len(run.ticks)
    /\ path.src = "sim" =>
          /\ path.result.seq = <<run.count - 1>>
          /\ path.result.status = <<run.ticks[run.count]>>
    /\ (path.src = "sim" /\ path.result.status = <<"ERROR">>) =>
          /\ path.result.fake_score = <<>>
          /\ path.result.predicted_fake = <<>>
          /\ path.result.raw_sensor = <<>>
          /\ path.stage \in {"eval", "returned"}
          /\ path.alert = <<>>
          /\ path.out = <<>>
          /\ \A q \in rows : q.id # run.nevents

\* the tick after a fault tick was made, and its event evaluated
C15_Witness ==
    /\ path.src = "sim"
    /\ path.stage = "returned"
    /\ path.by = "alerts"
    /\ run.ticks = <<"ERROR", "ERROR">>
    /\ path.result.seq = <<1>>

\* C16: a stream_tests call whose selector names a row outside the catalog,
\* whose interval is negative or whose max_tests is not positive is refused
\* before a worker is started: no worker ever runs such a request and no
\* registry entry is made for it.
C16_MalformedRejected ==
    \A w \in Workers :
        pc[w] # "idle" =>
            /\ req[w].sel.kind = "list" =>
                  \A k \in 1..Len(req[w].sel.idx) : req[w].sel.idx[k] < CatalogSize
            /\ req[w].interval >= 0
            /\ req[w].max_tests # <<>> => req[w].max_tests[1] > 0

\* C17: a stream of _stream_simulator_task broadcasts one test_result per
\* interval while the elapsed time is below the duration, and when its loop
\* has ended a stream_ended message has been broadcast after the last
\* test_result.
C17_EndsWithStreamEnded ==
    run.task = "done" =>
        /\ Len(run.sent) = RunTicks + 1
        /\ \A k \in 1..RunTicks : run.sent[k] = "test_result"
        /\ run.sent[RunTicks + 1] = "stream_ended"

\* C18 (as stated): every alert that load_alerts returns equals a saved
\* alert in all seven fields, the data field being the serialized source
\* event that was written.
C18_ReadBackFieldEqual ==
    \A k \in 1..Len(loaded) : \E q \in rows : loaded[k] = q

\* C18 (amended): an alert handed to save_alert_to_db is stored with its
\* seven fields as given; no stored alert is lost or overwritten by a later
\* append; and what load_alerts returns is, latest first and without
\* repeats, the stored alerts with id, timestamp, level, manufacturer,
\* manufacturer_phone and message equal to the saved ones and data equal to
\* the source event parsed back from the stored text (all of them when
\* the limit covers the store).
C18_ReadBackParsed ==
    /\ Cardinality(rows) = run.saved
    /\ (path.stage \in {"bcast", "returned"} /\ path.alert # <<>>
            /\ "save" \notin path.faults) => path.alert \in rows
    /\ \A k \in 1..Len(loaded) :
          \E q \in rows :
              /\ loaded[k] = [q EXCEPT !.data = Loads(q.data)]
              /\ Dumps(loaded[k].data) = q.data
    /\ \A j, k \in 1..Len(loaded) :
          j < k => loaded[j].timestamp > loaded[k].timestamp
    /\ (loaded # <<>> /\ Len(loaded) = Cardinality(rows)) =>
          \A q \in rows : \E k \in 1..Len(loaded) : loaded[k].id = q.id

\* two alerts of one run, one with a manufacturer phone, were stored and
\* both read back
C18_Witness ==
    /\ Len(loaded) = 2
    /\ run.saved = 2
    /\ loaded[1].manufacturer_phone = <<"555">>
    /\ loaded[1].data.fake_score # <<>>
    /\ loaded[1].level # loaded[2].level

\* C19: for every alert that evaluate_and_handle_alert made from a stream
\* tick or from /predict, the rules of the alert policy applied to the
\* alert's own snapshot (its days_to_expiry when it has one, else the days
\* to its expiry date; its fake_score; its predicted_fake) give the level
\* of the alert.
C19_SnapshotJustifiesLevel ==
    (path.by = "main" /\ path.src \in {"stream", "predict"} /\ path.alert # <<>>) =>
        LET snap0 == Loads(path.alert.data)
            days == IF snap0.days_to_expiry # <<>> THEN snap0.days_to_expiry
                    ELSE parse_days_to_expiry(snap0.expiry)
        IN  EvaluateLevel(days, ScoreOf(snap0), PredOf(snap0)) = path.alert.level

\* C20: every scored event of the simulator, of the stream task and of
\* /predict has predicted_fake = 1 exactly when its fake_score is at least
\* 0.8.
C20_PredictedFakeFromPointEight ==
    (path.src \in {"sim", "stream", "predict"} /\ path.result.fake_score # <<>>) =>
        (path.result.predicted_fake = <<1>>) <=> (path.result.fake_score[1] >= 800)

(* ----------------------- one stream: properties ------------------------ *)
\* C21: once the stop flag of a runner is set it stays set, the runner
\* never enters a tick (it is in simulate_hardware_test after a step only
\* if it was there before and has handed on nothing since), and a step
\* hands at most one event to the callback: so after stop_stream returned
\* True the runner publishes at most the one tick that was in flight, also
\* with interval 0.
C21_NoTickAfterStop ==
    [][\A w \in Workers :
          stop_flag[w] =>
              /\ stop_flag'[w]
              /\ pc'[w] = "test" => (pc[w] = "test" /\ evlog'[w] = evlog[w])
              /\ Len(evlog'[w]) <= Len(evlog[w]) + 1
              /\ Len(evlog'[w]) > Len(evlog[w]) => pc[w] = "test"]_vars

\* stop_stream returned True while a tick of a stream without interval was
\* in flight
C21_Witness ==
    \E w \in Workers :
        /\ stop_flag[w]
        /\ stopRet = "True"
        /\ pc[w] = "test"
        /\ req[w].interval = 0
        /\ Len(evlog[w]) = 1

\* C22: a stream started with max_tests = N hands at most N test events to
\* the callback, for every N >= 0 (none for N = 0), and exactly N by the
\* time stream_ended is published when it was not stopped and its selector
\* had N samples to give.
C22_AtMostMaxTests ==
    \A w \in Workers :
        req[w].max_tests # <<>> =>
            /\ Len(evlog[w]) <= req[w].max_tests[1]
            /\ (ended[w] > 0 /\ ~stop_flag[w] /\ req[w].sel.kind = "random") =>
                  Len(evlog[w]) = req[w].max_tests[1]

====
